---- MODULE Spec2Model ----
(***************************************************************************)
(* The FIRMS detection ingestion of the repository: the two scripts        *)
(* src/firms_to_mongo.py and src/cron_jobs/firms_to_mongo.py, run one      *)
(* after the other against the MongoDB collection firms_actualizado; and   *)
(* the AEMET forecast ingestion src/aemet_pred_auto.py against the         *)
(* collection aemet_predicciones.                                          *)
(*                                                                         *)
(* Units.  Coordinates are tenths of a degree (35.0 is 350, -1.0 is -10).  *)
(* Instants are minutes since 1970-01-01T00:00Z.  The radiative power is   *)
(* tenths (12.3 is 123).  A date string "YYYY-MM-DD" is the triple         *)
(* <<Y, M, D>>; the CSV's integer acq_time is a natural number.            *)
(***************************************************************************)
EXTENDS Integers, Sequences, FiniteSets, Bags, TLC

VARIABLES
    store,           \* collection firms_actualizado: a bag of documents
    indexed,         \* the unique index (latitud, longitud, datetime) exists
    clock,           \* the last value datetime.now(timezone.utc) returned
    runs,            \* script processes started so far
    pc,              \* position of the running script
    script,          \* which of the two scripts is running
    df,              \* the downloaded CSV, a sequence of raw rows
    df_espana,       \* the filtered / renamed / parsed rows
    limite_tiempo,   \* now - 7 days, computed by the run
    borrados_fecha,  \* deleted_count of the age prune
    borrados_fuera,  \* deleted_count of the geofence prune
    records,         \* df_espana.to_dict(orient="records")
    i,               \* position of the upsert loop in records
    insertados,      \* the counter the script prints
    total,           \* count_documents({}) of the final report
    nuevos,          \* history: documents this run really added to the store
    replay,          \* history: this run downloaded the batch of the run before
    doneStore,       \* history: the store when the run before ended
    doneNow,         \* history: the clock value the run before read
    \* aemet_pred_auto.py
    predicciones,    \* collection aemet_predicciones: a bag of documents
    municipios,      \* the configured sub-units, <<codigo, nombre>> in order
    dias,            \* what AEMET serves: the prediccion.dia list of a sub-unit
    apc,             \* position of the forecast script
    aruns,           \* forecast script processes started so far
    contador,        \* the counter of the main loop
    intento,         \* the loop variable of obtener_prediccion
    espera,          \* seconds of the time.sleep in progress
    peticiones,      \* history: requests.get(url) calls of the current call
    respuestas,      \* history: how each attempt of the current call ended
    llamadas,        \* history: the codes obtener_prediccion was called with
    averias,         \* failing answers the environment may still give
    fallo_store,     \* history: a store operation of this run raised
    antes,           \* history: the codes that had forecasts when the run began
    \* a second process of a detection script, and a run that is killed
    records2,        \* records of the second process
    i2,              \* position of the second process in its upsert loop
    inicio,          \* history: the collection when the upsert loop was entered
    abortos          \* history: runs killed inside the upsert loop

avars == <<predicciones, municipios, dias, apc, aruns, contador, intento,
           espera, peticiones, respuestas, llamadas, averias, fallo_store,
           antes>>

\* the variables of the detection scripts, the shared clock left out
fvars == <<store, indexed, runs, pc, script, df, df_espana, limite_tiempo,
           borrados_fecha, borrados_fuera, records, i, insertados, total,
           nuevos, replay, doneStore, doneNow>>

cvars == <<records2, i2, inicio, abortos>>

vars == <<fvars, clock, avars, cvars>>

----------------------------------------------------------------------------
(* Bounds of the model *)

MaxRuns == 3
MaxBatch == 2

----------------------------------------------------------------------------
(* Program constants *)

MAIN == "firms_to_mongo.py"
CRON == "cron_jobs/firms_to_mongo.py"
Scripts == {MAIN, CRON}

lat_min == 350
lat_max == 445
lon_min == -100
lon_max == 45
africa_lat == 370
africa_lon == -10
francia_lat == 439
cron_lat_min == 360
cron_lat_max == 445
cron_lon_min == -100
cron_lon_max == 45
zfill_width == 4
retention_days == 7
NaT == -1

MinutesPerDay == 24 * 60

----------------------------------------------------------------------------
(* datetime.strptime(f"{fecha} {str(hora).zfill(4)}", "%Y-%m-%d %H%M") *)

RECURSIVE str(_)
str(n) == IF n < 10 THEN <<n>> ELSE str(n \div 10) \o <<n % 10>>

\* ljust(4, "0"): the zeros go to the right
RECURSIVE zfill_right(_, _)
zfill_right(s, width) ==
    IF Len(s) >= width THEN s ELSE zfill_right(s \o <<0>>, width)

RECURSIVE zfill(_, _)
zfill(s, width) == IF Len(s) >= width THEN s ELSE zfill(<<0>> \o s, width)

IsLeap(y) == (y % 4 = 0 /\ y % 100 # 0) \/ y % 400 = 0

DaysInMonth(y, m) ==
    IF m = 2 THEN (IF IsLeap(y) THEN 29 ELSE 28)
    ELSE IF m \in {4, 6, 9, 11} THEN 30 ELSE 31

ValidDate(f) ==
    /\ f[1] \in 1..9999
    /\ f[2] \in 1..12
    /\ f[3] \in 1..DaysInMonth(f[1], f[2])

\* days from 1970-01-01 to the proleptic Gregorian date y-m-d
DaysFromCivil(y, m, d) ==
    LET yy  == IF m <= 2 THEN y - 1 ELSE y
        era == yy \div 400
        yoe == yy - era * 400
        mp  == IF m > 2 THEN m - 3 ELSE m + 9
        doy == (153 * mp + 2) \div 5 + d - 1
        doe == yoe * 365 + yoe \div 4 - yoe \div 100 + doy
    IN  era * 146097 + doe - 719468

\* "%H%M" on the padded digits: two digits 00..23 then two digits 00..59 and
\* nothing left over; anything else raises ValueError
strptime(fecha, hhmm) ==
    IF /\ ValidDate(fecha)
       /\ Len(hhmm) = 4
       /\ 10 * hhmm[1] + hhmm[2] <= 23
       /\ 10 * hhmm[3] + hhmm[4] <= 59
    THEN DaysFromCivil(fecha[1], fecha[2], fecha[3]) * MinutesPerDay
         + (10 * hhmm[1] + hhmm[2]) * 60 + (10 * hhmm[3] + hhmm[4])
    ELSE NaT

\* the time padded with ljust instead of zfill
parse_datetime_ljust(row) ==
    strptime(row.fecha, zfill_right(str(row.hora), zfill_width))

parse_datetime(row) == strptime(row.fecha, zfill(str(row.hora), zfill_width))

\* no dropna: every row stays
dropna_none(rows) == rows

dropna(rows) == SelectSeq(rows, LAMBDA r : r.datetime # NaT)

----------------------------------------------------------------------------
(* The geographic filter of each script *)

bbox(s, lat, lon) ==
    IF s = MAIN
    THEN lat >= lat_min /\ lat <= lat_max /\ lon >= lon_min /\ lon <= lon_max
    ELSE lat >= cron_lat_min /\ lat <= cron_lat_max
         /\ lon >= cron_lon_min /\ lon <= cron_lon_max

\* the exclusion with the longitude test turned round
mask_africa_west(lat, lon) == lat < africa_lat /\ lon < africa_lon

mask_africa(lat, lon) == lat < africa_lat /\ lon > africa_lon

mask_francia(lat, lon) == lat > francia_lat

\* the rows a script keeps in df_espana
accepted(s, lat, lon) ==
    /\ bbox(s, lat, lon)
    /\ s = MAIN => ~(mask_africa(lat, lon) \/ mask_francia(lat, lon))

\* the $or filter without the clause of the north of Africa
fuera_filter_sin_africa(d) ==
    \/ d.latitud < lat_min
    \/ d.latitud > lat_max
    \/ d.longitud < lon_min
    \/ d.longitud > lon_max
    \/ d.latitud > francia_lat

\* the $or filter of the second delete_many of firms_to_mongo.py
fuera_filter(d) ==
    \/ d.latitud < lat_min
    \/ d.latitud > lat_max
    \/ d.longitud < lon_min
    \/ d.longitud > lon_max
    \/ (d.latitud < africa_lat /\ d.longitud > africa_lon)
    \/ d.latitud > francia_lat

rename(row) ==
    [latitud |-> row.latitude, longitud |-> row.longitude,
     fecha |-> row.acq_date, hora |-> row.acq_time,
     potencia_radiativa |-> row.frp,
     fuente |-> "MODIS", region |-> "España"]

with_datetime(row) ==
    [latitud |-> row.latitud, longitud |-> row.longitud,
     fecha |-> row.fecha, hora |-> row.hora,
     potencia_radiativa |-> row.potencia_radiativa,
     fuente |-> row.fuente, region |-> row.region,
     datetime |-> parse_datetime(row)]

----------------------------------------------------------------------------
(* The collection *)

DedupKey(d) == <<d.latitud, d.longitud, d.datetime>>

\* a filter on the whole record instead of the three key fields
Matches_whole_record(d, rec) == d = rec

\* a filter on the coordinates alone
Matches_sin_datetime(d, rec) ==
    d.latitud = rec.latitud /\ d.longitud = rec.longitud

\* the filter document of update_one matches a stored document
Matches(d, rec) == DedupKey(d) = DedupKey(rec)

\* delete_many(filter), matching the set of documents the filter selects:
\* the documents that do not match stay
delete_many(coll, matching) ==
    LET keep == BagToSet(coll) \ matching
    IN  [d \in keep |-> coll[d]]

\* {"$lte": limite_tiempo}
old_filter_lte(d, limite) == d.datetime <= limite

old_filter(d, limite) == d.datetime < limite

\* insert_one(record): no look at the key
update_one_as_insert(coll, rec) == coll (+) SetToBag({rec})

\* update_one(key, {"$set": record}, upsert=True): the match is overwritten
update_one_as_set(coll, rec) ==
    LET others == {d \in BagToSet(coll) : ~Matches(d, rec)}
    IN  [d \in others |-> coll[d]] (+) SetToBag({rec})

\* update_one(key, {"$setOnInsert": record}, upsert=True)
update_one(coll, rec) ==
    IF \E d \in BagToSet(coll) : Matches(d, rec)
    THEN coll
    ELSE coll (+) SetToBag({rec})

----------------------------------------------------------------------------
(* Inputs *)

Instant(y, m, d, H, M) == DaysFromCivil(y, m, d) * MinutesPerDay + H * 60 + M

Instants == {Instant(2024, 7, 8, 13, 45), Instant(2024, 7, 9, 13, 45)}

Row(lat, lon, fecha, hora, frp) ==
    [latitude |-> lat, longitude |-> lon, acq_date |-> fecha,
     acq_time |-> hora, frp |-> frp]

FeedRows ==
    { Row(401, -35, <<2024, 7, 1>>, 1345, 123),
      Row(401, -35, <<2024, 7, 1>>, 1345, 200),
      Row(401, -35, <<2024, 7, 3>>, 1345, 123),
      Row(365, 20, <<2024, 7, 3>>, 1345, 123),
      Row(355, -50, <<2024, 7, 3>>, 1345, 123),
      Row(401, -35, <<2024, 7, 3>>, 2400, 123),
      Row(440, 0, <<2024, 7, 3>>, 45, 123) }

RECURSIVE SeqsUpTo(_, _)
SeqsUpTo(S, n) ==
    IF n = 0 THEN {<<>>}
    ELSE LET shorter == SeqsUpTo(S, n - 1)
         IN  shorter \cup {Append(b, r) : b \in shorter, r \in S}

Batches == SeqsUpTo(FeedRows, MaxBatch)

----------------------------------------------------------------------------
(* The state machine *)

Locals(p, s, batch) ==
    /\ pc = p
    /\ script = s
    /\ df = batch
    /\ df_espana = <<>>
    /\ limite_tiempo = 0
    /\ borrados_fecha = 0
    /\ borrados_fuera = 0
    /\ records = <<>>
    /\ i = 0
    /\ insertados = 0
    /\ total = 0
    /\ nuevos = 0

\* one process only, never killed
SoloOff ==
    /\ records2 = <<>>
    /\ i2 = 0
    /\ inicio = EmptyBag
    /\ abortos = 0

\* the forecast script is not running and has never run
AemetOff ==
    /\ predicciones = EmptyBag
    /\ municipios = <<>>
    /\ dias = <<>>
    /\ apc = "idle"
    /\ aruns = 0
    /\ contador = 0
    /\ intento = 0
    /\ espera = 0
    /\ peticiones = 0
    /\ respuestas = <<>>
    /\ llamadas = <<>>
    /\ averias = 0
    /\ fallo_store = FALSE
    /\ antes = {}
    /\ SoloOff

Init ==
    /\ store = EmptyBag
    /\ indexed = FALSE
    /\ clock = CHOOSE t \in Instants : \A u \in Instants : t <= u
    /\ runs = 0
    /\ Locals("idle", MAIN, <<>>)
    /\ replay = FALSE
    /\ doneStore = EmptyBag
    /\ doneNow = 0
    /\ AemetOff

Fresh(p, s, batch) ==
    /\ pc' = p
    /\ script' = s
    /\ df' = batch
    /\ df_espana' = <<>>
    /\ limite_tiempo' = 0
    /\ borrados_fecha' = 0
    /\ borrados_fuera' = 0
    /\ records' = <<>>
    /\ i' = 0
    /\ insertados' = 0
    /\ total' = 0
    /\ nuevos' = 0

\* lines 7-30: a script starts, connects and downloads the CSV
Download ==
    /\ pc = "idle"
    /\ runs < MaxRuns
    /\ \E s \in Scripts, batch \in Batches : Fresh("downloaded", s, batch)
    /\ runs' = runs + 1
    /\ replay' = FALSE
    /\ doneStore' = EmptyBag
    /\ doneNow' = 0
    /\ UNCHANGED <<store, indexed, clock>>
    /\ UNCHANGED <<avars, cvars>>

\* a script that creates the index before it downloads
DownloadFails_indexes ==
    /\ pc = "idle"
    /\ runs < MaxRuns
    /\ \E s \in Scripts : Fresh("exit1", s, <<>>)
    /\ runs' = runs + 1
    /\ replay' = FALSE
    /\ doneStore' = EmptyBag
    /\ doneNow' = 0
    /\ indexed' = TRUE
    /\ UNCHANGED <<store, clock>>
    /\ UNCHANGED <<avars, cvars>>

\* lines 24-28: pd.read_csv raises, the script exits with status 1
DownloadFails ==
    /\ pc = "idle"
    /\ runs < MaxRuns
    /\ \E s \in Scripts : Fresh("exit1", s, <<>>)
    /\ runs' = runs + 1
    /\ replay' = FALSE
    /\ doneStore' = EmptyBag
    /\ doneNow' = 0
    /\ UNCHANGED <<store, indexed, clock>>
    /\ UNCHANGED <<avars, cvars>>

\* the same script is started again and downloads the identical CSV
DownloadAgain ==
    /\ pc = "done"
    /\ runs < MaxRuns
    /\ Fresh("downloaded", script, df)
    /\ runs' = runs + 1
    /\ replay' = TRUE
    /\ doneStore' = store
    /\ doneNow' = clock
    /\ UNCHANGED <<store, indexed, clock>>
    /\ UNCHANGED <<avars, cvars>>

\* lines 32-57: bounding box, exclusions, exit 0 when nothing is left
GeoFilter ==
    /\ pc = "downloaded"
    /\ df_espana' =
         SelectSeq(df, LAMBDA r : accepted(script, r.latitude, r.longitude))
    /\ pc' = IF df_espana' = <<>> THEN "exit0" ELSE "filtered"
    /\ UNCHANGED <<store, indexed, clock, runs, script, df, limite_tiempo,
                   borrados_fecha, borrados_fuera, records, i, insertados,
                   total, nuevos, replay, doneStore, doneNow>>
    /\ UNCHANGED <<avars, cvars>>

\* lines 59-69: rename the columns, add fuente and region
Rename ==
    /\ pc = "filtered"
    /\ df_espana' = [k \in 1..Len(df_espana) |-> rename(df_espana[k])]
    /\ pc' = "renamed"
    /\ UNCHANGED <<store, indexed, clock, runs, script, df, limite_tiempo,
                   borrados_fecha, borrados_fuera, records, i, insertados,
                   total, nuevos, replay, doneStore, doneNow>>
    /\ UNCHANGED <<avars, cvars>>

\* lines 71-84: the datetime column, then dropna
ParseDatetime ==
    /\ pc = "renamed"
    /\ df_espana' =
         dropna([k \in 1..Len(df_espana) |-> with_datetime(df_espana[k])])
    /\ pc' = "parsed"
    /\ UNCHANGED <<store, indexed, clock, runs, script, df, limite_tiempo,
                   borrados_fecha, borrados_fuera, records, i, insertados,
                   total, nuevos, replay, doneStore, doneNow>>
    /\ UNCHANGED <<avars, cvars>>

\* lines 86-89: read the clock, delete what is older than 7 days
PruneOld ==
    /\ pc = "parsed"
    /\ \E now \in {t \in Instants : t >= clock} :
         /\ clock' = now
         /\ limite_tiempo' = now - retention_days * MinutesPerDay
    /\ store' = delete_many(store, {d \in BagToSet(store) :
                                       old_filter(d, limite_tiempo')})
    /\ borrados_fecha' = BagCardinality(store) - BagCardinality(store')
    /\ pc' = "pruned"
    /\ UNCHANGED <<indexed, runs, script, df, df_espana, borrados_fuera,
                   records, i, insertados, total, nuevos, replay, doneStore,
                   doneNow>>
    /\ UNCHANGED <<avars, cvars>>

\* lines 91-109 of firms_to_mongo.py only: delete what lies outside the area
PruneFuera ==
    /\ pc = "pruned"
    /\ script = MAIN
    /\ store' = delete_many(store, {d \in BagToSet(store) : fuera_filter(d)})
    /\ borrados_fuera' = BagCardinality(store) - BagCardinality(store')
    /\ pc' = "cleaned"
    /\ UNCHANGED <<indexed, clock, runs, script, df, df_espana, limite_tiempo,
                   borrados_fecha, records, i, insertados, total, nuevos,
                   replay, doneStore, doneNow>>
    /\ UNCHANGED <<avars, cvars>>

\* lines 111-119: the unique index, the records, the counter
CreateIndex ==
    /\ \/ pc = "cleaned"
       \/ pc = "pruned" /\ script = CRON
    /\ indexed' = TRUE
    /\ records' = df_espana
    /\ insertados' = 0
    /\ i' = 1
    /\ pc' = "upsert"
    /\ UNCHANGED <<store, clock, runs, script, df, df_espana, limite_tiempo,
                   borrados_fecha, borrados_fuera, total, nuevos, replay,
                   doneStore, doneNow>>
    /\ UNCHANGED <<avars, cvars>>

\* a turn that lets the collision with a stored key end the process
Upsert_raises ==
    /\ pc = "upsert"
    /\ i <= Len(records)
    /\ IF \E d \in BagToSet(store) : Matches(d, records[i])
       THEN /\ pc' = "exit1"
            /\ UNCHANGED <<store, insertados, nuevos, i>>
       ELSE /\ store' = update_one(store, records[i])
            /\ insertados' = insertados + 1
            /\ nuevos' = nuevos + 1
            /\ i' = i + 1
            /\ UNCHANGED pc
    /\ UNCHANGED <<indexed, clock, runs, script, df, df_espana,
                   limite_tiempo, borrados_fecha, borrados_fuera, records,
                   total, replay, doneStore, doneNow>>
    /\ UNCHANGED <<avars, cvars>>

\* lines 121-135: one turn of the upsert loop
Upsert ==
    /\ pc = "upsert"
    /\ i <= Len(records)
    /\ store' = update_one(store, records[i])
    /\ insertados' = insertados + 1
    /\ nuevos' = nuevos + (BagCardinality(store') - BagCardinality(store))
    /\ i' = i + 1
    /\ UNCHANGED <<indexed, clock, runs, pc, script, df, df_espana,
                   limite_tiempo, borrados_fecha, borrados_fuera, records,
                   total, replay, doneStore, doneNow>>
    /\ UNCHANGED <<avars, cvars>>

\* lines 137-142: the final report
Report ==
    /\ pc = "upsert"
    /\ i > Len(records)
    /\ total' = BagCardinality(store)
    /\ pc' = "done"
    /\ UNCHANGED <<store, indexed, clock, runs, script, df, df_espana,
                   limite_tiempo, borrados_fecha, borrados_fuera, records, i,
                   insertados, nuevos, replay, doneStore, doneNow>>
    /\ UNCHANGED <<avars, cvars>>

\* the process ends; nothing of it but the collection remains
Exit ==
    /\ pc \in {"done", "exit0", "exit1"}
    /\ Fresh("idle", MAIN, <<>>)
    /\ replay' = FALSE
    /\ doneStore' = EmptyBag
    /\ doneNow' = 0
    /\ UNCHANGED <<store, indexed, clock, runs>>
    /\ UNCHANGED <<avars, cvars>>

Next ==
    \/ Download
    \/ DownloadFails
    \/ DownloadAgain
    \/ GeoFilter
    \/ Rename
    \/ ParseDatetime
    \/ PruneOld
    \/ PruneFuera
    \/ CreateIndex
    \/ Upsert
    \/ Report
    \/ Exit

Spec == Init /\ [][Next]_vars

----------------------------------------------------------------------------
(* The filter and the normalisation alone, on one row drawn from a wide grid *)

LatSamples == {349, 350, 355, 359, 360, 365, 369, 370, 401, 439, 440, 445, 446}
LonSamples == {-101, -100, -35, -11, -10, -9, 20, 45, 46}
FechaSamples == {<<2024, 7, 1>>, <<2024, 2, 29>>, <<2023, 2, 29>>, <<2024, 13, 1>>}
HoraSamples ==
    {h * 100 + m : h \in {0, 9, 13, 23, 24}, m \in {0, 5, 45, 59, 60}} \cup {12345}

WideRows ==
    {Row(lat, lon, f, h, 123) :
        lat \in LatSamples, lon \in LonSamples, f \in FechaSamples, h \in HoraSamples}

InitRow ==
    /\ store = EmptyBag
    /\ indexed = FALSE
    /\ clock = CHOOSE t \in Instants : \A u \in Instants : t <= u
    /\ runs = 1
    /\ \E s \in Scripts, r \in WideRows : Locals("downloaded", s, <<r>>)
    /\ replay = FALSE
    /\ doneStore = EmptyBag
    /\ doneNow = 0
    /\ AemetOff

NextRow ==
    \/ GeoFilter
    \/ Rename
    \/ ParseDatetime

SpecRow == InitRow /\ [][NextRow]_vars

----------------------------------------------------------------------------
(* What the claims are stated with *)

SevenDays == 7 * 24 * 60
SixDays == 6 * 24 * 60
EightDays == 8 * 24 * 60

\* the geofence of each script as the design states it: a rectangle (bounds
\* included) and the exclusion rules, in tenths of a degree
InRectangle(s, lat, lon) ==
    IF s = MAIN THEN lat \in 350..445 /\ lon \in -100..45
                ELSE lat \in 360..445 /\ lon \in -100..45

Excluded(s, lat, lon) ==
    s = MAIN /\ ((lat < 370 /\ lon > -10) \/ lat > 439)

Inside(s, lat, lon) == InRectangle(s, lat, lon) /\ ~Excluded(s, lat, lon)

\* days since 1970-01-01 of the dates the inputs use, from the calendar
EpochDay(f) ==
    CASE f = <<2024, 7, 1>> -> 19905
      [] f = <<2024, 7, 3>> -> 19907
      [] f = <<2024, 2, 29>> -> 19782
      [] OTHER -> -1

\* a date and an HHMM number that name an instant
Composable(f, hora) ==
    /\ EpochDay(f) >= 0
    /\ (hora \div 100) <= 23
    /\ (hora % 100) <= 59

Composed(f, hora) == EpochDay(f) * 1440 + (hora \div 100) * 60 + (hora % 100)

StoreDocs == BagToSet(store)

----------------------------------------------------------------------------
C2_UniqueKey ==
    \A d \in StoreDocs :
        /\ CopiesIn(d, store) = 1
        /\ \A e \in StoreDocs : DedupKey(e) = DedupKey(d) => e = d

\* the loop has met a key that was already stored, beside another document
C2_Witness ==
    /\ pc = "upsert"
    /\ insertados > nuevos
    /\ BagCardinality(store) >= 2

(* C3: an upsert whose key is stored leaves the collection as it is, and   *)
(* a stored document changes or disappears in no step but the two prunes,  *)
(* which remove it whole.                                                  *)
C3_NoOverwrite ==
    [][ /\ (/\ pc = "upsert"
            /\ i <= Len(records)
            /\ \E d \in StoreDocs : DedupKey(d) = DedupKey(records[i]))
           => store' = store
        /\ \A d \in StoreDocs :
              CopiesIn(d, store') # CopiesIn(d, store) =>
                  /\ pc \in {"parsed", "pruned"}
                  /\ pc' \in {"pruned", "cleaned"}
                  /\ CopiesIn(d, store') = 0
      ]_vars

\* the loop has just passed a record whose key is stored with another
\* radiative power, and the stored one is still there
C3_Witness ==
    /\ pc = "upsert"
    /\ i > 1
    /\ \E d \in StoreDocs :
          /\ DedupKey(d) = DedupKey(records[i - 1])
          /\ d.potencia_radiativa # records[i - 1].potencia_radiativa

(* C4: the counter the run reports is the number of documents the run      *)
(* added, the rest of the batch being the skipped collisions; a run that   *)
(* adds nothing reports 0.                                                 *)
C4_CountsInserted ==
    pc = "done" =>
        LET inserted == insertados
            skipped  == Len(records) - insertados
        IN  /\ inserted = nuevos
            /\ inserted + skipped = Len(records)
            /\ (replay /\ nuevos = 0) => (inserted = 0 /\ skipped = Len(records))

(* C5: a script keeps a row iff its coordinate is inside the script's      *)
(* rectangle, bounds included, and matches none of the script's exclusion  *)
(* rules; (36.5, 2.0) is dropped by the script that has the rule           *)
(* lat < 37 and lon > -1.                                                  *)
C5_Geofence ==
    pc \in {"filtered", "exit0"} =>
        /\ \A k \in 1..Len(df) :
              Inside(script, df[k].latitude, df[k].longitude)
                  <=> \E j \in 1..Len(df_espana) : df_espana[j] = df[k]
        /\ \A j \in 1..Len(df_espana) : \E k \in 1..Len(df) : df[k] = df_espana[j]
        /\ (script = MAIN /\ Len(df) = 1
            /\ df[1].latitude = 365 /\ df[1].longitude = 20) => df_espana = <<>>

\* a point strictly inside the rectangle and in no exclusion has been kept
C5_Witness ==
    /\ pc = "filtered"
    /\ script = MAIN
    /\ df[1].latitude = 401 /\ df[1].longitude = -35
    /\ Len(df_espana) = 1

(* C6: the age prune removes every stored document older than the clock    *)
(* value it reads minus 7 days and no other, and no step of a run removes  *)
(* a document that is not older than that and is inside the geofence of    *)
(* the running script.                                                     *)
C6_PruneByAge ==
    [][ /\ (pc = "parsed" /\ pc' = "pruned") =>
              \A d \in StoreDocs :
                  CopiesIn(d, store') =
                      IF d.datetime < clock' - SevenDays THEN 0
                      ELSE CopiesIn(d, store)
        /\ \A d \in StoreDocs :
              CopiesIn(d, store') < CopiesIn(d, store) =>
                  \/ d.datetime < clock' - SevenDays
                  \/ ~Inside(script, d.latitud, d.longitud)
      ]_vars

\* the prune has removed the document of 8 days ago and kept the one of 6
C6_Witness ==
    /\ pc = "pruned"
    /\ replay
    /\ \E d \in BagToSet(doneStore) :
          d.datetime = clock - EightDays /\ ~BagIn(d, store)
    /\ \E d \in BagToSet(doneStore) :
          d.datetime = clock - SixDays /\ BagIn(d, store)

(* C7: when a run has ended, no stored document is older than the clock    *)
(* value the run read minus 7 days.                                        *)
C7_OnlyLastSevenDays ==
    pc = "done" => \A d \in StoreDocs : d.datetime >= clock - SevenDays

(* C8: when a run of either script has ended, every stored document is     *)
(* inside the geofence of that script.                                     *)
C8_AllInsideAtEnd ==
    pc = "done" => \A d \in StoreDocs : Inside(script, d.latitud, d.longitud)

(* C9: a kept row with a valid date and a time HHMM below 2400 with        *)
(* MM < 60 becomes one record whose datetime is that date at HH:MM UTC     *)
(* and whose potencia_radiativa is the row's frp; 2024-07-01 with 1345 is  *)
(* 2024-07-01T13:45Z, and time 45 is 00:45.                                *)
C9_Composition ==
    (pc = "parsed" /\ Len(df) = 1
     /\ Composable(df[1].acq_date, df[1].acq_time)) =>
        /\ Len(df_espana) = 1
        /\ df_espana[1].datetime = Composed(df[1].acq_date, df[1].acq_time)
        /\ df_espana[1].potencia_radiativa = df[1].frp
        /\ (df[1].acq_date = <<2024, 7, 1>> /\ df[1].acq_time = 1345)
              => df_espana[1].datetime = 28664025
        /\ df[1].acq_time = 45 => df_espana[1].datetime % 1440 = 45

\* the row of 2024-07-01 with time 45 has been normalised
C9_Witness ==
    /\ pc = "parsed"
    /\ df[1].acq_date = <<2024, 7, 1>>
    /\ df[1].acq_time = 45
    /\ Len(df_espana) = 1

(* C10: no stored document and no record of a run has a missing datetime;  *)
(* when a run has ended, every kept row that composes has its key stored   *)
(* and every kept row that does not compose has produced no record.        *)
C10_DropUnparsable ==
    /\ \A d \in StoreDocs : d.datetime # NaT
    /\ pc \in {"upsert", "done"} =>
          \A j \in 1..Len(records) : records[j].datetime # NaT
    /\ pc = "done" =>
          \A k \in 1..Len(df) :
              Inside(script, df[k].latitude, df[k].longitude) =>
                  IF Composable(df[k].acq_date, df[k].acq_time)
                  THEN \E d \in StoreDocs :
                          DedupKey(d) = <<df[k].latitude, df[k].longitude,
                                          Composed(df[k].acq_date, df[k].acq_time)>>
                  ELSE \A j \in 1..Len(records) :
                          <<records[j].fecha, records[j].hora>>
                              # <<df[k].acq_date, df[k].acq_time>>

\* a run has ended whose batch held a row that does not compose before a
\* row that does, and the second one is what the run added
C10_Witness ==
    /\ pc = "done"
    /\ Len(df) = 2
    /\ ~Composable(df[1].acq_date, df[1].acq_time)
    /\ Inside(script, df[1].latitude, df[1].longitude)
    /\ Len(records) = 1
    /\ nuevos = 1

----------------------------------------------------------------------------
(* src/aemet_pred_auto.py: the forecast of every configured municipality is *)
(* requested from AEMET in two stages and inserted into aemet_predicciones. *)
(* Sleeps are in seconds; fecha_descarga is an instant in minutes.          *)

NumMunicipios == 11      \* entries of the configured list a long run goes through
NumFetch == 3            \* entries of the configured list a short run goes through
MaxAverias == 2          \* failing answers AEMET gives during a long run
MaxARuns == 2            \* forecast runs started one after the other
NumRegiones == 2         \* entries of the configured list when runs repeat

max_intentos == 5
paso_429 == 10
espera_excepcion == 3
lote == 10
pausa_lote == 30
pausa_corta == 8

\* the dictionary municipios, in insertion order
ListaMunicipios ==
    <<
       <<"01059", "Álava">>, <<"02003", "Albacete">>, <<"03014", "Alicante">>,
       <<"04013", "Almería">>, <<"05019", "Ávila">>, <<"06015", "Badajoz">>,
       <<"07040", "Islas Baleares">>, <<"08019", "Barcelona">>, <<"09059", "Burgos">>,
       <<"10037", "Cáceres">>, <<"11012", "Cádiz">>, <<"12040", "Castellón">>,
       <<"13034", "Ciudad Real">>, <<"14021", "Córdoba">>, <<"15030", "A Coruña">>,
       <<"16078", "Cuenca">>, <<"17079", "Girona">>, <<"18087", "Granada">>,
       <<"19075", "Guadalajara">>, <<"20069", "Guipúzcoa">>, <<"21041", "Huelva">>,
       <<"22059", "Huesca">>, <<"23050", "Jaén">>, <<"24089", "León">>,
       <<"25038", "Lleida">>, <<"26089", "La Rioja">>, <<"27028", "Lugo">>,
       <<"28079", "Madrid">>, <<"29067", "Málaga">>, <<"30030", "Murcia">>,
       <<"31076", "Navarra">>, <<"32054", "Ourense">>, <<"33044", "Asturias">>,
       <<"34004", "Palencia">>, <<"35016", "Las Palmas">>, <<"36038", "Pontevedra">>,
       <<"37085", "Salamanca">>, <<"38023", "Santa Cruz de Tenerife">>, <<"39075", "Cantabria">>,
       <<"40004", "Segovia">>, <<"41091", "Sevilla">>, <<"42059", "Soria">>,
       <<"43047", "Tarragona">>, <<"44069", "Teruel">>, <<"45081", "Toledo">>,
       <<"46085", "Valencia">>, <<"47053", "Valladolid">>, <<"48020", "Bizkaia">>,
       <<"49021", "Zamora">>, <<"50297", "Zaragoza">>
    >>

\* a wait that doubles: 10, 20, 40, ...
espera_429_exponencial(n) == paso_429 * 2 ^ n

\* espera = (intento + 1) * 10
espera_429(n) == (n + 1) * paso_429

\* the short sleep after every call
pausa_siempre_corta(c) == pausa_corta

\* if contador % 10 == 0: time.sleep(30) else: time.sleep(8)
pausa(c) == IF c % lote = 0 THEN pausa_lote ELSE pausa_corta

\* datetime.now(timezone.utc).replace(hour=0, minute=0, second=0, microsecond=0)
hoy(now) == (now \div MinutesPerDay) * MinutesPerDay

\* {"fecha_descarga": {"$lt": hoy}}
purga_filter(d, h) == d.fecha_descarga < h

\* p["provincia"] = nombre; p["codigo"] = codigo; p["fecha_descarga"] = now
anotar(p, codigo, nombre, now) ==
    [fecha |-> p.fecha, provincia |-> nombre, codigo |-> codigo,
     fecha_descarga |-> now]

RECURSIVE DocsBag(_)
DocsBag(docs) ==
    IF docs = <<>> THEN EmptyBag
    ELSE SetToBag({Head(docs)}) (+) DocsBag(Tail(docs))

\* collection.insert_many(pred)
insert_many(c, docs) == c (+) DocsBag(docs)

\* a loop that never gives up: while True
quedan_intentos_siempre(n) == n >= 0

\* a loop of one pass less: range(4)
quedan_intentos_uno_menos(n) == n + 2 < max_intentos

\* the for loop goes on after the attempt numbered n (0-based)
quedan_intentos(n) == n + 1 < max_intentos

----------------------------------------------------------------------------
(* What AEMET answers *)

\* the day objects of datos[0]["prediccion"]["dia"]
Dia(f) == [fecha |-> f]

\* the lists AEMET serves one after the other, the first day being today's
Feeds ==
    << <<Dia("2024-07-08"), Dia("2024-07-09")>>,
       <<Dia("2024-07-09"), Dia("2024-07-10")>> >>

FeedCorto == <<Dia("2024-07-08")>>

AemetInstants ==
    <<Instant(2024, 7, 8, 9, 0), Instant(2024, 7, 8, 23, 30),
      Instant(2024, 7, 9, 9, 0), Instant(2024, 7, 9, 21, 0)>>

\* no budget of failing answers
SinLimite == 0 - 1

\* status codes other than 200 and 429
OtrosEstados == {404, 500}

\* answers of the result URL that fail the test of line 48: another status,
\* or 200 with an empty body
EstadosSinCuerpo == {200, 404, 429}

----------------------------------------------------------------------------
(* The forecast script, one action per blocking step *)

\* the entry of municipios the call in progress is for
codigo == municipios[contador + 1][1]
nombre == municipios[contador + 1][2]

\* how one attempt ended: the request it ended at (etapa 1 is the API url,
\* 2 the result URL), the status received (0 when the request raised), the
\* branch taken and the sleep that follows
Anota(etapa, status, resultado, seg) ==
    respuestas' = Append(respuestas,
        [intento |-> intento + 1, etapa |-> etapa, status |-> status,
         resultado |-> resultado, segundos |-> seg])

\* return of obtener_prediccion, then contador += 1 and the sleep of the loop
Vuelve ==
    /\ contador' = contador + 1
    /\ espera' = pausa(contador + 1)
    /\ apc' = "pausa"
    /\ UNCHANGED intento

\* time.sleep inside obtener_prediccion
Duerme(seg) ==
    /\ espera' = seg
    /\ apc' = "duerme"
    /\ UNCHANGED <<contador, intento>>

\* the run given up when the passes of a call are used up
Siguiente_aborta ==
    IF quedan_intentos(intento)
    THEN /\ intento' = intento + 1
         /\ espera' = 0
         /\ apc' = "peticion"
         /\ UNCHANGED contador
    ELSE /\ apc' = "fin"
         /\ espera' = 0
         /\ UNCHANGED <<contador, intento>>

\* the end of one pass of for intento in range(5)
Siguiente ==
    IF quedan_intentos(intento)
    THEN /\ intento' = intento + 1
         /\ espera' = 0
         /\ apc' = "peticion"
         /\ UNCHANGED contador
    ELSE Vuelve

\* one more failing answer of the environment, out of a budget unless the
\* budget is SinLimite
Averia ==
    /\ averias # 0
    /\ averias' = IF averias = SinLimite THEN averias ELSE averias - 1

Inicia ==
    /\ apc = "idle"
    /\ aruns < MaxARuns
    /\ aruns' = aruns + 1
    /\ antes' = {d.codigo : d \in BagToSet(predicciones)}
    /\ predicciones' = delete_many(predicciones,
           {d \in BagToSet(predicciones) : purga_filter(d, hoy(clock))})
    /\ contador' = 0
    /\ intento' = 0
    /\ espera' = 0
    /\ peticiones' = 0
    /\ respuestas' = <<>>
    /\ llamadas' = <<>>
    /\ fallo_store' = FALSE
    /\ apc' = "bucle"
    /\ UNCHANGED <<municipios, dias, averias>>
    /\ UNCHANGED <<fvars, clock, cvars>>

Llama ==
    /\ apc = "bucle"
    /\ contador < Len(municipios)
    /\ llamadas' = Append(llamadas, codigo)
    /\ intento' = 0
    /\ peticiones' = 0
    /\ respuestas' = <<>>
    /\ apc' = "peticion"
    /\ UNCHANGED <<predicciones, municipios, dias, aruns, contador, espera,
                   averias, fallo_store, antes>>
    /\ UNCHANGED <<fvars, clock, cvars>>

Fin ==
    /\ apc = "bucle"
    /\ contador = Len(municipios)
    /\ apc' = "fin"
    /\ UNCHANGED <<predicciones, municipios, dias, aruns, contador, intento,
                   espera, peticiones, respuestas, llamadas, averias,
                   fallo_store, antes>>
    /\ UNCHANGED <<fvars, clock, cvars>>

\* requests.get(url) raises, or resp.json() does
Resp1Excepcion ==
    /\ apc = "peticion"
    /\ Averia
    /\ peticiones' = peticiones + 1
    /\ Anota(1, 0, "excepcion", espera_excepcion)
    /\ Duerme(espera_excepcion)
    /\ UNCHANGED <<predicciones, municipios, dias, aruns, llamadas,
                   fallo_store, antes>>
    /\ UNCHANGED <<fvars, clock, cvars>>

Resp1Limite ==
    /\ apc = "peticion"
    /\ Averia
    /\ peticiones' = peticiones + 1
    /\ Anota(1, 429, "limite", espera_429(intento))
    /\ Duerme(espera_429(intento))
    /\ UNCHANGED <<predicciones, municipios, dias, aruns, llamadas,
                   fallo_store, antes>>
    /\ UNCHANGED <<fvars, clock, cvars>>

Resp1Error ==
    /\ apc = "peticion"
    /\ Averia
    /\ peticiones' = peticiones + 1
    /\ \E st \in OtrosEstados : Anota(1, st, "error", 0)
    /\ Vuelve
    /\ UNCHANGED <<predicciones, municipios, dias, aruns, llamadas,
                   fallo_store, antes>>
    /\ UNCHANGED <<fvars, clock, cvars>>

Resp1SinDatos ==
    /\ apc = "peticion"
    /\ Averia
    /\ peticiones' = peticiones + 1
    /\ Anota(1, 200, "sin_datos", 0)
    /\ Vuelve
    /\ UNCHANGED <<predicciones, municipios, dias, aruns, llamadas,
                   fallo_store, antes>>
    /\ UNCHANGED <<fvars, clock, cvars>>

Resp1Datos ==
    /\ apc = "peticion"
    /\ peticiones' = peticiones + 1
    /\ apc' = "datos"
    /\ UNCHANGED <<predicciones, municipios, dias, aruns, contador, intento,
                   espera, respuestas, llamadas, averias, fallo_store, antes>>
    /\ UNCHANGED <<fvars, clock, cvars>>

\* requests.get(datos_url) raises, or the payload has no dictionaries
Resp2Excepcion ==
    /\ apc = "datos"
    /\ Averia
    /\ Anota(2, 0, "excepcion", espera_excepcion)
    /\ Duerme(espera_excepcion)
    /\ UNCHANGED <<predicciones, municipios, dias, aruns, peticiones, llamadas,
                   fallo_store, antes>>
    /\ UNCHANGED <<fvars, clock, cvars>>

\* datos_resp.status_code == 200 and datos_resp.text.strip() is false
Resp2SinCuerpo ==
    /\ apc = "datos"
    /\ Averia
    /\ \E st \in EstadosSinCuerpo : Anota(2, st, "sin_cuerpo", 0)
    /\ Siguiente
    /\ UNCHANGED <<predicciones, municipios, dias, aruns, peticiones, llamadas,
                   fallo_store, antes>>
    /\ UNCHANGED <<fvars, clock, cvars>>

\* a payload that cannot be decoded taken as one more failed attempt
Resp2NoJson_reintenta ==
    /\ apc = "datos"
    /\ Averia
    /\ Anota(2, 200, "no_json", 0)
    /\ Siguiente
    /\ UNCHANGED <<predicciones, municipios, dias, aruns, peticiones, llamadas,
                   fallo_store, antes>>
    /\ UNCHANGED <<fvars, clock, cvars>>

Resp2NoJson ==
    /\ apc = "datos"
    /\ Averia
    /\ Anota(2, 200, "no_json", 0)
    /\ Vuelve
    /\ UNCHANGED <<predicciones, municipios, dias, aruns, peticiones, llamadas,
                   fallo_store, antes>>
    /\ UNCHANGED <<fvars, clock, cvars>>

Resp2SinPrediccion ==
    /\ apc = "datos"
    /\ Averia
    /\ Anota(2, 200, "sin_prediccion", 0)
    /\ Vuelve
    /\ UNCHANGED <<predicciones, municipios, dias, aruns, peticiones, llamadas,
                   fallo_store, antes>>
    /\ UNCHANGED <<fvars, clock, cvars>>

Resp2Prediccion ==
    /\ apc = "datos"
    /\ dias # <<>>
    /\ predicciones' = insert_many(predicciones,
           [k \in DOMAIN dias |-> anotar(dias[k], codigo, nombre, clock)])
    /\ Anota(2, 200, "insertadas", 0)
    /\ Vuelve
    /\ UNCHANGED <<municipios, dias, aruns, peticiones, llamadas, averias,
                   fallo_store, antes>>
    /\ UNCHANGED <<fvars, clock, cvars>>

\* the sleep of line 70 or 76 ends
Despierta ==
    /\ apc = "duerme"
    /\ Siguiente
    /\ UNCHANGED <<predicciones, municipios, dias, aruns, peticiones,
                   respuestas, llamadas, averias, fallo_store, antes>>
    /\ UNCHANGED <<fvars, clock, cvars>>

\* the sleep of line 97 or 99 ends
FinPausa ==
    /\ apc = "pausa"
    /\ apc' = "bucle"
    /\ espera' = 0
    /\ intento' = 0
    /\ peticiones' = 0
    /\ respuestas' = <<>>
    /\ UNCHANGED <<predicciones, municipios, dias, aruns, contador, llamadas,
                   averias, fallo_store, antes>>
    /\ UNCHANGED <<fvars, clock, cvars>>

NextAemet ==
    \/ Inicia
    \/ Llama
    \/ Fin
    \/ Resp1Excepcion
    \/ Resp1Limite
    \/ Resp1Error
    \/ Resp1SinDatos
    \/ Resp1Datos
    \/ Resp2Excepcion
    \/ Resp2SinCuerpo
    \/ Resp2NoJson
    \/ Resp2SinPrediccion
    \/ Resp2Prediccion
    \/ Despierta
    \/ FinPausa

\* the detection scripts are not running and have never run
FirmsOff ==
    /\ store = EmptyBag
    /\ indexed = FALSE
    /\ runs = 0
    /\ Locals("idle", MAIN, <<>>)
    /\ replay = FALSE
    /\ doneStore = EmptyBag
    /\ doneNow = 0
    /\ SoloOff

AemetInit(lista, feed, n) ==
    /\ predicciones = EmptyBag
    /\ municipios = lista
    /\ dias = feed
    /\ apc = "idle"
    /\ aruns = 0
    /\ contador = 0
    /\ intento = 0
    /\ espera = 0
    /\ peticiones = 0
    /\ respuestas = <<>>
    /\ llamadas = <<>>
    /\ averias = n
    /\ fallo_store = FALSE
    /\ antes = {}

\* one run over the head of the configured list, few failing answers
InitAemet ==
    /\ FirmsOff
    /\ clock = AemetInstants[1]
    /\ AemetInit(SubSeq(ListaMunicipios, 1, NumMunicipios), FeedCorto, MaxAverias)

SpecAemet == InitAemet /\ [][NextAemet]_vars

\* one run over a short list, every answer failing if AEMET so chooses
InitFetch ==
    /\ FirmsOff
    /\ clock = AemetInstants[1]
    /\ AemetInit(SubSeq(ListaMunicipios, 1, NumFetch), FeedCorto, SinLimite)

SpecFetch == InitFetch /\ [][NextAemet]_vars

----------------------------------------------------------------------------
(* Runs one after the other, AEMET reissuing its forecasts in between, and *)
(* store operations that raise pymongo.errors.ConnectionFailure             *)

\* the process ends; the scheduler starts the next one at a later instant
Salir ==
    /\ apc \in {"fin", "caida"}
    /\ aruns < MaxARuns
    /\ apc' = "idle"
    /\ \E k \in DOMAIN AemetInstants :
           /\ AemetInstants[k] > clock
           /\ clock' = AemetInstants[k]
    /\ UNCHANGED <<predicciones, municipios, dias, aruns, contador, intento,
                   espera, peticiones, respuestas, llamadas, averias,
                   fallo_store, antes>>
    /\ UNCHANGED <<fvars, cvars>>

\* AEMET reissues the forecast between two runs
ServidorActualiza ==
    /\ apc = "idle"
    /\ aruns > 0
    /\ \E k \in 1 .. Len(Feeds) - 1 :
           /\ dias = Feeds[k]
           /\ dias' = Feeds[k + 1]
    /\ UNCHANGED <<predicciones, municipios, apc, aruns, contador, intento,
                   espera, peticiones, respuestas, llamadas, averias,
                   fallo_store, antes>>
    /\ UNCHANGED <<fvars, clock, cvars>>

\* collection.delete_many raises: nothing catches it, the process dies
PurgaFalla ==
    /\ apc = "idle"
    /\ aruns < MaxARuns
    /\ Averia
    /\ aruns' = aruns + 1
    /\ antes' = {d.codigo : d \in BagToSet(predicciones)}
    /\ fallo_store' = TRUE
    /\ apc' = "caida"
    /\ contador' = 0
    /\ intento' = 0
    /\ espera' = 0
    /\ peticiones' = 0
    /\ respuestas' = <<>>
    /\ llamadas' = <<>>
    /\ UNCHANGED <<predicciones, municipios, dias>>
    /\ UNCHANGED <<fvars, clock, cvars>>

\* collection.insert_many raises after the server took the first n documents:
\* the except Exception of obtener_prediccion catches it
InsertFalla ==
    /\ apc = "datos"
    /\ dias # <<>>
    /\ Averia
    /\ \E n \in 0 .. Len(dias) :
           predicciones' = insert_many(predicciones,
               [k \in 1 .. n |-> anotar(dias[k], codigo, nombre, clock)])
    /\ fallo_store' = TRUE
    /\ Anota(2, 200, "excepcion", espera_excepcion)
    /\ Duerme(espera_excepcion)
    /\ UNCHANGED <<municipios, dias, aruns, peticiones, llamadas, antes>>
    /\ UNCHANGED <<fvars, clock, cvars>>

NextAemetRuns ==
    \/ NextAemet
    \/ Salir
    \/ ServidorActualiza
    \/ PurgaFalla
    \/ InsertFalla

InitAemetRuns ==
    /\ FirmsOff
    /\ \E t \in DOMAIN AemetInstants :
           /\ t < Len(AemetInstants)
           /\ clock = AemetInstants[t]
    /\ \E k \in DOMAIN Feeds :
           AemetInit(SubSeq(ListaMunicipios, 1, NumRegiones), Feeds[k],
                     MaxAverias)

SpecAemetRuns == InitAemetRuns /\ [][NextAemetRuns]_vars

----------------------------------------------------------------------------
(* What the claims on the forecast script are stated with *)

Ultima == respuestas[Len(respuestas)]

EnLlamada == apc \in {"peticion", "datos", "duerme"}

PrediccionesDocs == BagToSet(predicciones)

Codigos == {municipios[k][1] : k \in DOMAIN municipios}

----------------------------------------------------------------------------
(* C11: one call of obtener_prediccion requests the API url at most 5      *)
(* times; a 429 answer to the request of the i-th attempt (counted from 1) *)
(* is followed by a sleep of i * 10 seconds; and when the attempts of a    *)
(* call were answered 429, 429, 429 and then 200 with a forecast, the      *)
(* sleeps were 10, 20 and 30 seconds and the forecast is in the collection.*)
C11_LinearBackoff ==
    /\ peticiones <= max_intentos
    /\ Len(respuestas) <= max_intentos
    /\ \A k \in DOMAIN respuestas :
          (respuestas[k].etapa = 1 /\ respuestas[k].status = 429) =>
              respuestas[k].segundos = respuestas[k].intento * paso_429
    /\ (/\ apc = "duerme"
        /\ Ultima.etapa = 1
        /\ Ultima.status = 429) => espera = peticiones * paso_429
    /\ (/\ Len(respuestas) = 4
        /\ \A k \in 1 .. 3 :
              respuestas[k].etapa = 1 /\ respuestas[k].status = 429
        /\ respuestas[4].resultado = "insertadas")
         => /\ [k \in 1 .. 3 |-> respuestas[k].segundos] = <<10, 20, 30>>
            /\ peticiones = 4
            /\ \E d \in PrediccionesDocs : d.codigo = municipios[contador][1]

\* a call has just returned after 429, 429, 429 and a stored forecast
C11_Witness ==
    /\ apc = "pausa"
    /\ Len(respuestas) = 4
    /\ \A k \in 1 .. 3 : respuestas[k].status = 429
    /\ [k \in 1 .. 4 |-> respuestas[k].segundos] = <<10, 20, 30, 0>>
    /\ respuestas[4].resultado = "insertadas"
    /\ \E d \in PrediccionesDocs : d.codigo = municipios[contador][1]

(* C12: an attempt that raises is followed by a sleep of 3 seconds; when   *)
(* the sleep ends, another attempt is made if fewer than 5 attempts of the *)
(* call have been made, 429 answers counted, and otherwise the call        *)
(* returns without another request.                                        *)
C12_TransientRetry ==
    [][ /\ (/\ Len(respuestas') = Len(respuestas) + 1
            /\ respuestas'[Len(respuestas')].status = 0)
           => /\ apc' = "duerme"
              /\ espera' = espera_excepcion
              /\ respuestas'[Len(respuestas')].intento = Len(respuestas')
        /\ (apc = "duerme" /\ Ultima.status = 0)
           => IF Len(respuestas) < max_intentos
              THEN /\ apc' = "peticion"
                   /\ intento' = intento + 1
              ELSE /\ apc' = "pausa"
                   /\ peticiones' = peticiones
        /\ peticiones' > peticiones => peticiones' = Len(respuestas) + 1
        /\ peticiones' <= max_intentos
      ]_vars

\* a call has returned after five attempts, of which some were answered 429
\* and some raised, the last one among them
C12_Witness ==
    /\ apc = "pausa"
    /\ Len(respuestas) = max_intentos
    /\ peticiones = max_intentos
    /\ Ultima.status = 0
    /\ \E k \in DOMAIN respuestas : respuestas[k].status = 429
    /\ \E k \in 1 .. 4 : respuestas[k].status = 0

(* C13: once a request of a call, to the API url or to the result URL, is  *)
(* answered with a status other than 200 and 429, the call has returned:   *)
(* that attempt is its last, no request follows and the call stores        *)
(* nothing.                                                                *)
C13_PermanentEndsFetch ==
    \A k \in DOMAIN respuestas :
        respuestas[k].status \in OtrosEstados =>
            /\ k = Len(respuestas)
            /\ apc = "pausa"
            /\ peticiones = respuestas[k].intento
            /\ ~ \E d \in PrediccionesDocs : d.codigo = municipios[contador][1]

(* C14: the calls of a run are for the entries of the configured list, one *)
(* each, in the order of the list; a call that ends without a forecast,    *)
(* at once or after its five attempts, is followed by the pause and the    *)
(* next entry, and the run ends only after the last entry.                 *)
C14_EverySubUnitOnce ==
    /\ Len(llamadas) <= Len(municipios)
    /\ llamadas = [k \in 1 .. Len(llamadas) |-> municipios[k][1]]
    /\ apc # "idle" => Len(llamadas) = (IF EnLlamada THEN contador + 1 ELSE contador)
    /\ apc \in {"idle", "bucle", "peticion", "datos", "duerme", "pausa", "fin"}
    /\ apc = "fin" => Len(llamadas) = Len(municipios)

\* the run has ended: the calls for the first two entries ended without a
\* forecast, and the forecast of the third entry is stored
C14_Witness ==
    /\ apc = "fin"
    /\ Len(llamadas) = 3
    /\ averias = SinLimite
    /\ \A d \in PrediccionesDocs : d.codigo = municipios[3][1]
    /\ PrediccionesDocs # {}

(* C15: every call, with or without a forecast stored, is followed by a    *)
(* sleep of the main loop, 30 seconds when the number of calls made is a   *)
(* multiple of 10 and 8 seconds otherwise, and a call starts only at the   *)
(* start of the run or when such a sleep has ended.                        *)
C15_PauseAfterEveryCall ==
    [][ /\ (EnLlamada /\ apc' \notin {"peticion", "datos", "duerme"})
           => /\ apc' = "pausa"
              /\ espera' = (IF Len(llamadas) % 10 = 0 THEN 30 ELSE 8)
        /\ Len(llamadas') > Len(llamadas) => apc = "bucle"
        /\ apc' = "bucle"
           => \/ apc = "pausa"
              \/ apc = "idle" /\ llamadas' = <<>>
        /\ apc = "pausa" => apc' = "bucle"
      ]_vars

\* the tenth call failed and the eleventh call is in progress
C15_Witness ==
    /\ Len(llamadas) = lote + 1
    /\ EnLlamada
    /\ ~ \E d \in PrediccionesDocs : d.codigo = municipios[lote][1]

(* C16: the step that stores the forecast of one entry X leaves the        *)
(* documents of every other entry as they were, and after it no document   *)
(* of X downloaded by an earlier run has a fecha that the stored batch     *)
(* does not have.                                                          *)
C16_ReplaceScope ==
    [][ (/\ apc = "datos"
         /\ apc' = "pausa"
         /\ respuestas'[Len(respuestas')].resultado = "insertadas")
        => /\ \A d \in PrediccionesDocs \cup BagToSet(predicciones') :
                 d.codigo # codigo =>
                     CopiesIn(d, predicciones') = CopiesIn(d, predicciones)
           /\ \A d \in BagToSet(predicciones') :
                 (d.codigo = codigo /\ d.fecha_descarga < clock) =>
                     \E k \in DOMAIN dias : dias[k].fecha = d.fecha
      ]_vars

(* C17: when a run has ended, the collection holds one document at most    *)
(* for a codigo and a fecha, and for an entry this run stored, the         *)
(* documents of the fechas served are the ones this run downloaded.        *)
C17_AtMostOneLatest ==
    apc = "fin" =>
        /\ \A d \in PrediccionesDocs :
              /\ CopiesIn(d, predicciones) = 1
              /\ \A e \in PrediccionesDocs :
                    (e.codigo = d.codigo /\ e.fecha = d.fecha) => e = d
        /\ \A d, e \in PrediccionesDocs :
              (/\ d.codigo = e.codigo
               /\ d.fecha_descarga = clock
               /\ \E k \in DOMAIN dias : dias[k].fecha = e.fecha)
                  => e.fecha_descarga = clock

(* C18: while a run is in progress, no entry has documents of two runs for *)
(* the same fecha in the collection, and every entry that had documents    *)
(* when the run began has some.                                            *)
C18_ReaderView ==
    apc \in {"bucle", "peticion", "datos", "duerme", "pausa"} =>
        \A c \in Codigos :
            /\ \A d, e \in PrediccionesDocs :
                  (d.codigo = c /\ e.codigo = c /\ d.fecha = e.fecha) =>
                      d.fecha_descarga = e.fecha_descarga
            /\ c \in antes => \E d \in PrediccionesDocs : d.codigo = c

(* C19: once a store operation of a run has raised, the run neither goes   *)
(* on to another attempt or another entry nor reaches the message of       *)
(* successful completion: the process has died with the exception.         *)
C19_StoreFailureSurfaced ==
    fallo_store => apc \in {"caida", "idle"}

(* C20: the turn of the upsert loop on a record whose key is stored raises *)
(* nothing and leaves the collection as it is, the loop going on with the  *)
(* next record; the loop ends after the last record, each record of the    *)
(* batch then having its key stored.                                       *)
C20_CollisionIsNoOp ==
    [][ /\ (/\ pc = "upsert"
            /\ i <= Len(records)
            /\ \E d \in StoreDocs : Matches(d, records[i]))
           => /\ pc' = "upsert"
              /\ i' = i + 1
              /\ records' = records
              /\ \A d \in StoreDocs \cup BagToSet(store') :
                    CopiesIn(d, store') = CopiesIn(d, store)
        /\ (pc = "upsert" /\ pc' # "upsert")
           => /\ pc' = "done"
              /\ i = Len(records) + 1
              /\ \A k \in DOMAIN records :
                    \E d \in StoreDocs : Matches(d, records[k])
      ]_vars

\* a run has ended whose first record collided with a stored document of
\* another radiative power and whose second record was added
C20_Witness ==
    /\ pc = "done"
    /\ Len(records) = 2
    /\ nuevos = 1
    /\ records[2] \in StoreDocs
    /\ records[1] \notin StoreDocs
    /\ \E d \in StoreDocs : Matches(d, records[1])

----------------------------------------------------------------------------
(* C21: a run that has ended with status 0, its download having           *)
(* succeeded, has pruned the collection, whatever the rows downloaded; a   *)
(* run ends with status 1 only when the download failed; and no record is  *)
(* upserted before the prune.                                              *)
C21_PruneBeforeEnd ==
    /\ pc \in {"exit0", "done"} => limite_tiempo # 0
    /\ pc = "upsert" => limite_tiempo # 0
    /\ pc = "exit1" => (df = <<>> /\ limite_tiempo = 0)

(* C25: for every coordinate, the filter of the geofence delete_many of    *)
(* firms_to_mongo.py selects a document at that coordinate iff the         *)
(* script's filter of the downloaded rows rejects a row at it.             *)
C25_GeofenceComplement ==
    script = MAIN =>
        \A k \in DOMAIN df :
            fuera_filter(rename(df[k])) <=>
                ~ accepted(MAIN, df[k].latitude, df[k].longitude)

\* the script has dropped a row inside the rectangle for the rule of the
\* north of Africa, and the delete filter selects a document at that place
C25_Witness ==
    /\ pc = "exit0"
    /\ script = MAIN
    /\ InRectangle(MAIN, df[1].latitude, df[1].longitude)
    /\ df[1].latitude < africa_lat
    /\ fuera_filter(rename(df[1]))

(* C28: the step in which the download raises ends the script with status  *)
(* 1 and leaves the collection and its indexes as they were, and so does    *)
(* the end of that process.                                                *)
C28_FailedDownloadWritesNothing ==
    [][ /\ (pc = "idle" /\ pc' = "exit1")
           => /\ store' = store
              /\ indexed' = indexed
        /\ pc = "exit1"
           => /\ pc' = "idle"
              /\ store' = store
              /\ indexed' = indexed
        /\ pc' = "exit1" => pc = "idle"
      ]_vars

\* a download has failed on a collection that holds documents
C28_Witness ==
    /\ pc = "exit1"
    /\ store # EmptyBag
    /\ runs > 1

----------------------------------------------------------------------------
(* The upsert loop of a detection script, entered with the records of a    *)
(* downloaded batch: next to a second process in its own loop, and killed  *)
(* and started again.                                                      *)

MaxAbortos == 1          \* runs killed inside the upsert loop

\* lines 38-51: the rows of a downloaded batch a script keeps
Selected(s, batch) ==
    SelectSeq(batch, LAMBDA r : accepted(s, r.latitude, r.longitude))

\* lines 59-82 and 118: the records a script makes of a downloaded batch
Prepared(s, batch) ==
    LET sel == Selected(s, batch)
    IN  dropna([k \in 1 .. Len(sel) |-> with_datetime(rename(sel[k]))])

\* for record in records: update_one(...)
RECURSIVE FoldUpsert(_, _)
FoldUpsert(coll, recs) ==
    IF recs = <<>> THEN coll
    ELSE FoldUpsert(update_one(coll, Head(recs)), Tail(recs))

\* the two delete_many of a script, the second one in firms_to_mongo.py only
Pruned(coll, s, limite) ==
    LET a == delete_many(coll, {d \in BagToSet(coll) : old_filter(d, limite)})
    IN  IF s = MAIN
        THEN delete_many(a, {d \in BagToSet(a) : fuera_filter(d)})
        ELSE a

\* what earlier runs on one-row batches have left, pruned by this run
StoresIniciales(s, limite) ==
    {Pruned(FoldUpsert(EmptyBag, Prepared(s0, b0)), s, limite) :
        s0 \in Scripts, b0 \in SeqsUpTo(FeedRows, 1)}

\* a script at the entry of its upsert loop
EnBucle(s, batch, coll) ==
    /\ Selected(s, batch) # <<>>
    /\ store = coll
    /\ indexed = TRUE
    /\ runs = 1
    /\ pc = "upsert"
    /\ script = s
    /\ df = batch
    /\ df_espana = Prepared(s, batch)
    /\ limite_tiempo = clock - retention_days * MinutesPerDay
    /\ borrados_fecha = 0
    /\ borrados_fuera = 0
    /\ records = Prepared(s, batch)
    /\ i = 1
    /\ insertados = 0
    /\ total = 0
    /\ nuevos = 0
    /\ replay = FALSE
    /\ doneStore = EmptyBag
    /\ doneNow = 0
    /\ inicio = coll
    /\ abortos = 0

\* lines 121-135 in a second process: one turn of its loop
Upsert2 ==
    /\ i2 <= Len(records2)
    /\ store' = update_one(store, records2[i2])
    /\ i2' = i2 + 1
    /\ UNCHANGED <<indexed, runs, pc, script, df, df_espana, limite_tiempo,
                   borrados_fecha, borrados_fuera, records, i, insertados,
                   total, nuevos, replay, doneStore, doneNow>>
    /\ UNCHANGED <<clock, avars, records2, inicio, abortos>>

InitOverlap ==
    /\ clock = CHOOSE t \in Instants : \A u \in Instants : t <= u
    /\ \E s \in Scripts, batch \in Batches :
           EnBucle(s, batch, EmptyBag)
    /\ \E s2 \in Scripts, b2 \in SeqsUpTo(FeedRows, 1) :
           /\ Selected(s2, b2) # <<>>
           /\ records2 = Prepared(s2, b2)
    /\ i2 = 1
    /\ predicciones = EmptyBag
    /\ municipios = <<>>
    /\ dias = <<>>
    /\ apc = "idle"
    /\ aruns = 0
    /\ contador = 0
    /\ intento = 0
    /\ espera = 0
    /\ peticiones = 0
    /\ respuestas = <<>>
    /\ llamadas = <<>>
    /\ averias = 0
    /\ fallo_store = FALSE
    /\ antes = {}

NextOverlap ==
    \/ Upsert
    \/ Upsert2
    \/ Report

SpecOverlap == InitOverlap /\ [][NextOverlap]_vars

\* a transaction around the loop: the kill discards what the loop stored
Abort_rollback ==
    /\ pc = "upsert"
    /\ abortos < MaxAbortos
    /\ pc' = "killed"
    /\ abortos' = abortos + 1
    /\ store' = inicio
    /\ UNCHANGED <<indexed, runs, script, df, df_espana, limite_tiempo,
                   borrados_fecha, borrados_fuera, records, i, insertados,
                   total, nuevos, replay, doneStore, doneNow>>
    /\ UNCHANGED <<clock, avars, records2, i2, inicio>>

\* lines 121-135: the process is killed before a turn of the loop
Abort ==
    /\ pc = "upsert"
    /\ abortos < MaxAbortos
    /\ pc' = "killed"
    /\ abortos' = abortos + 1
    /\ UNCHANGED <<store, indexed, runs, script, df, df_espana, limite_tiempo,
                   borrados_fecha, borrados_fuera, records, i, insertados,
                   total, nuevos, replay, doneStore, doneNow>>
    /\ UNCHANGED <<clock, avars, records2, i2, inicio>>

\* lines 7-30: the same script is started again and downloads the same CSV
Rerun ==
    /\ pc = "killed"
    /\ Fresh("downloaded", script, df)
    /\ runs' = runs + 1
    /\ UNCHANGED <<store, indexed, clock, replay, doneStore, doneNow>>
    /\ UNCHANGED <<avars, cvars>>

InitAbort ==
    /\ clock = CHOOSE t \in Instants : \A u \in Instants : t <= u
    /\ \E s \in Scripts, batch \in Batches :
         \E coll \in StoresIniciales(s, clock - retention_days * MinutesPerDay) :
           EnBucle(s, batch, coll)
    /\ records2 = <<>>
    /\ i2 = 0
    /\ predicciones = EmptyBag
    /\ municipios = <<>>
    /\ dias = <<>>
    /\ apc = "idle"
    /\ aruns = 0
    /\ contador = 0
    /\ intento = 0
    /\ espera = 0
    /\ peticiones = 0
    /\ respuestas = <<>>
    /\ llamadas = <<>>
    /\ averias = 0
    /\ fallo_store = FALSE
    /\ antes = {}

NextAbort ==
    \/ Upsert
    \/ Abort
    \/ Rerun
    \/ GeoFilter
    \/ Rename
    \/ ParseDatetime
    \/ PruneOld
    \/ PruneFuera
    \/ CreateIndex
    \/ Report

SpecAbort == InitAbort /\ [][NextAbort]_vars

----------------------------------------------------------------------------
(* C22: when two processes have both ended their upsert loops, whatever    *)
(* the order in which their turns were taken, the collection is what the   *)
(* first batch followed by the second gives, which is also what the second *)
(* followed by the first gives, records that share a key and differ in     *)
(* another field included.                                                 *)
C22_OrderIndependent ==
    (i > Len(records) /\ i2 > Len(records2)) =>
        /\ store = FoldUpsert(FoldUpsert(inicio, records), records2)
        /\ store = FoldUpsert(FoldUpsert(inicio, records2), records)

\* the documents at hand: those found and the records of the two processes
Candidatos ==
    BagToSet(inicio) \cup {records[k] : k \in DOMAIN records}
                    \cup {records2[k] : k \in DOMAIN records2}

(* C22 as amended: when two processes have both ended their upsert loops,  *)
(* whatever the order of their turns, the collection holds one document    *)
(* for each key found or upserted and no other, each of them a document    *)
(* found or a record of a batch with that key; and it is what either       *)
(* order of the two batches gives whenever the documents and records that  *)
(* share a key are equal.                                                  *)
C22_KeysOrderIndependent ==
    (i > Len(records) /\ i2 > Len(records2)) =>
        /\ {DedupKey(d) : d \in StoreDocs} = {DedupKey(d) : d \in Candidatos}
        /\ \A d \in StoreDocs :
              /\ CopiesIn(d, store) = 1
              /\ d \in Candidatos
              /\ \A e \in StoreDocs : DedupKey(e) = DedupKey(d) => e = d
        /\ \A d \in BagToSet(inicio) : d \in StoreDocs
        /\ (\A d, e \in Candidatos : DedupKey(d) = DedupKey(e) => d = e) =>
              /\ store = FoldUpsert(FoldUpsert(inicio, records), records2)
              /\ store = FoldUpsert(FoldUpsert(inicio, records2), records)

\* both loops have ended; the first records of the two batches share their
\* key and differ in radiative power, and one of them is stored
C22_Witness ==
    /\ i > Len(records)
    /\ i2 > Len(records2)
    /\ Len(records) = 2
    /\ Len(records2) = 1
    /\ DedupKey(records[1]) = DedupKey(records2[1])
    /\ records[1] # records2[1]
    /\ records2[1] \in StoreDocs
    /\ DedupKey(records[2]) # DedupKey(records[1])

(* C23: when a script is killed inside its upsert loop, the collection     *)
(* holds what the loop had stored; and when the script, started again on   *)
(* the same CSV, has ended, the collection is what one run of it without   *)
(* the kill gives from the collection the killed run found: that of the    *)
(* killed run itself had it gone on, when no document found has passed     *)
(* the 7 days in between.                                                  *)
C23_ResumeAfterAbort ==
    /\ (pc = "killed" /\ abortos = 1) =>
           store = FoldUpsert(inicio, SubSeq(records, 1, i - 1))
    /\ (pc = "done" /\ abortos > 0) =>
           /\ store = FoldUpsert(Pruned(inicio, script, limite_tiempo),
                                 Prepared(script, df))
           /\ (\A d \in BagToSet(inicio) : ~ old_filter(d, limite_tiempo)) =>
                  store = FoldUpsert(inicio, Prepared(script, df))

\* a run was killed after its first record of two was stored, and the run
\* started again on the same CSV has ended
C23_Witness ==
    /\ pc = "done"
    /\ abortos = 1
    /\ runs = 2
    /\ Len(records) = 2
    /\ BagCardinality(store) = BagCardinality(inicio) + 2
    /\ nuevos = 1

----------------------------------------------------------------------------
(* One forecast run in which the script always takes its next step: every  *)
(* request answers or times out (timeout=10), every sleep ends, and        *)
(* insert_many answers or raises.  The servers and the store fail as many  *)
(* times as one call has attempts.                                         *)

NextLive ==
    \/ NextAemet
    \/ InsertFalla

InitLive ==
    /\ FirmsOff
    /\ clock = AemetInstants[1]
    /\ AemetInit(SubSeq(ListaMunicipios, 1, NumRegiones), FeedCorto,
                 max_intentos)

SpecLive == InitLive /\ [][NextLive]_vars /\ WF_vars(NextLive)

----------------------------------------------------------------------------
(* C24: the purge at the start of a forecast run deletes every document    *)
(* downloaded more than 24 hours before the run and keeps every document   *)
(* downloaded less than 24 hours before it, at whatever time of day the    *)
(* run starts and whatever the fecha of the document.                      *)
C24_PurgeOlderThan24h ==
    [][ (apc = "idle" /\ apc' = "bucle") =>
            \A d \in PrediccionesDocs :
                /\ d.fecha_descarga < clock - MinutesPerDay =>
                       CopiesIn(d, predicciones') = 0
                /\ d.fecha_descarga > clock - MinutesPerDay =>
                       CopiesIn(d, predicciones') = CopiesIn(d, predicciones)
      ]_vars

(* C26: every attempt of a call that is followed by another attempt of the *)
(* call is followed first by a sleep: of 10 seconds times its number after *)
(* a 429, of 3 seconds otherwise.                                          *)
C26_SleepBetweenAttempts ==
    \A k \in DOMAIN respuestas :
        (k < Len(respuestas) \/ apc \in {"peticion", "datos"}) =>
            /\ respuestas[k].segundos > 0
            /\ respuestas[k].segundos =
                  (IF respuestas[k].status = 429
                   THEN respuestas[k].intento * paso_429
                   ELSE espera_excepcion)

(* C27: in one run the collection gets each document of a municipality     *)
(* once at most, and a call executes insert_many once at most, also when   *)
(* insert_many raises.                                                     *)
C27_InsertAtMostOnce ==
    /\ \A d \in PrediccionesDocs : CopiesIn(d, predicciones) = 1
    /\ \A k, m \in DOMAIN respuestas :
          (/\ respuestas[k].etapa = 2
           /\ respuestas[k].status = 200
           /\ respuestas[k].resultado \in {"insertadas", "excepcion"}
           /\ respuestas[m].etapa = 2
           /\ respuestas[m].status = 200
           /\ respuestas[m].resultado \in {"insertadas", "excepcion"})
              => k = m

(* C29: a call requests the API url 5 times at most and always returns,    *)
(* whatever the answers, the exceptions and the outcome of insert_many,    *)
(* and a run always reaches its final message, then having made one call   *)
(* for each entry of the list.                                             *)
C29_Terminates ==
    /\ [](peticiones <= max_intentos)
    /\ [](apc = "fin" => Len(llamadas) = Len(municipios))
    /\ (EnLlamada ~> apc = "pausa")
    /\ <>(apc = "fin")

\* the run has reached its final message after five failing answers, an
\* insert_many that raised among them
C29_Witness ==
    /\ apc = "fin"
    /\ fallo_store
    /\ averias = 0
    /\ Len(llamadas) = Len(municipios)

(* C30: an attempt that finds no datos link in the answer of the API url,  *)
(* or a result that json() cannot decode, or a result without daily        *)
(* forecasts, is the last attempt of its call: the call returns with       *)
(* nothing stored and no further request, and the loop goes on to its      *)
(* sleep and then to the next entry.                                       *)
C30_EmptyResultEndsSubUnit ==
    [][ /\ (/\ Len(respuestas') = Len(respuestas) + 1
            /\ respuestas'[Len(respuestas')].resultado \in
                  {"sin_datos", "no_json", "sin_prediccion"})
           => /\ apc' = "pausa"
              /\ predicciones' = predicciones
              /\ contador' = contador + 1
              /\ peticiones' = Len(respuestas')
        /\ (/\ apc = "pausa"
            /\ Ultima.resultado \in {"sin_datos", "no_json", "sin_prediccion"})
           => /\ apc' = "bucle"
              /\ predicciones' = predicciones
              /\ contador' = contador
              /\ peticiones' = 0
      ]_vars

\* a call has returned on a result that cannot be decoded, in its second
\* attempt, and the list has a next entry
C30_Witness ==
    /\ apc = "pausa"
    /\ Len(respuestas) = 2
    /\ Ultima.resultado = "no_json"
    /\ contador < Len(municipios)
    /\ ~ \E d \in PrediccionesDocs : d.codigo = municipios[contador][1]

====
